---- MODULE Spec2Model ----
(***************************************************************************)
(* Model of the three "vector" services (vector1_app.py, vector2_app.py,   *)
(* vector3_app.py): the authorizer, the capability handlers, the usage     *)
(* biller and the listing publisher.                                       *)
(*                                                                         *)
(* A Python str is a sequence of one-character strings.  A dynamically     *)
(* typed argument is a record [t, s, n]: t is the Python type name, s the  *)
(* text of a str, n the number of an int / bool / float (a float carries   *)
(* its value in tenths).                                                   *)
(* Money is counted in units of 0.0001 USD (E4) after round(_, 4) and in   *)
(* units of 0.000001 USD (E6) before it.                                   *)
(***************************************************************************)
EXTENDS Integers, Sequences, FiniteSets, TLC

VARIABLES vector, API_AUTH_TOKEN, STRIPE_AVAILABLE, STRIPE_SECRET_KEY,
          stripe_api_key, request, response, stripe_calls

vars == <<vector, API_AUTH_TOKEN, STRIPE_AVAILABLE, STRIPE_SECRET_KEY,
          stripe_api_key, request, response, stripe_calls>>

config == <<vector, API_AUTH_TOKEN, STRIPE_AVAILABLE, STRIPE_SECRET_KEY>>

(***************************************************************************)
(* Bounds of the explored inputs.                                          *)
(***************************************************************************)
MaxPieces == 4

MaxUnits == 4

MaxPayloadLen == 4

(***************************************************************************)
(* Python values.                                                          *)
(***************************************************************************)
PyNone == [t |-> "NoneType", s |-> <<>>, n |-> 0]

PyStr(x) == [t |-> "str", s |-> x, n |-> 0]

PyInt(k) == [t |-> "int", s |-> <<>>, n |-> k]

PyBool(b) == [t |-> "bool", s |-> <<>>, n |-> IF b THEN 1 ELSE 0]

PyFloat(tenths) == [t |-> "float", s |-> <<>>, n |-> tenths]

isinstance_str(x) == x.t = "str"

\* bool is a subclass of int in Python
isinstance_int(x) == x.t \in {"int", "bool"}

\* truth value of a Python object, as bool(x) computes it
truthy(x) ==
  CASE x.t = "str" -> x.s # <<>>
    [] x.t = "NoneType" -> FALSE
    [] OTHER -> x.n # 0

(***************************************************************************)
(* str methods.                                                            *)
(***************************************************************************)
Whitespace == {" ", "\t", "\n"}

UpperLetters == <<"A","B","C","D","E","F","G","H","I","J","K","L","M",
                  "N","O","P","Q","R","S","T","U","V","W","X","Y","Z">>

LowerLetters == <<"a","b","c","d","e","f","g","h","i","j","k","l","m",
                  "n","o","p","q","r","s","t","u","v","w","x","y","z">>

lower_char(c) ==
  IF \E i \in 1..26 : UpperLetters[i] = c
  THEN LowerLetters[CHOOSE i \in 1..26 : UpperLetters[i] = c]
  ELSE c

lower(str) == [i \in 1..Len(str) |-> lower_char(str[i])]

startswith(str, prefix) ==
  /\ Len(str) >= Len(prefix)
  /\ SubSeq(str, 1, Len(prefix)) = prefix

\* the `in` operator on two strs
contains(str, sub) ==
  \E i \in 1..(Len(str) - Len(sub) + 1) : SubSeq(str, i, i + Len(sub) - 1) = sub

RECURSIVE lstrip(_)
lstrip(str) ==
  IF str # <<>> /\ Head(str) \in Whitespace THEN lstrip(Tail(str)) ELSE str

RECURSIVE rstrip(_)
rstrip(str) ==
  IF str # <<>> /\ str[Len(str)] \in Whitespace
  THEN rstrip(SubSeq(str, 1, Len(str) - 1))
  ELSE str

strip(str) == rstrip(lstrip(str))

\* str[k:] with a 0-based k
slice_from(str, k) == SubSeq(str, k + 1, Len(str))

\* len(str.split()): the number of maximal runs of non-whitespace
RECURSIVE split_count(_)
split_count(str) ==
  IF str = <<>> THEN 0
  ELSE IF Head(str) \in Whitespace THEN split_count(Tail(str))
  ELSE IF Len(str) = 1 \/ str[2] \in Whitespace THEN 1 + split_count(Tail(str))
  ELSE split_count(Tail(str))

(***************************************************************************)
(* String literals of the source.                                          *)
(***************************************************************************)
S_Bearer == <<"B","e","a","r","e","r"," ">>

S_bearer == <<"b","e","a","r","e","r"," ">>

S_https == <<"h","t","t","p","s",":","/","/">>

S_http == <<"h","t","t","p">>

S_site_que_falla == <<"s","i","t","e","-","q","u","e","-","f","a","l","l","a">>

S_example_com == <<"e","x","a","m","p","l","e",".","c","o","m">>

S_BAD == <<"B","A","D">>

S_pdf_financials == <<"p","d","f","_","f","i","n","a","n","c","i","a","l","s">>

S_extract_markdown == <<"e","x","t","r","a","c","t","_","m","a","r","k","d","o","w","n">>

S_create_usage_charge == <<"c","r","e","a","t","e","_","u","s","a","g","e","_","c","h","a","r","g","e">>

S_publish_listing == <<"p","u","b","l","i","s","h","_","l","i","s","t","i","n","g">>

S_run_skill == <<"r","u","n","_","s","k","i","l","l">>

S_generate_llm_txt == <<"g","e","n","e","r","a","t","e","_","l","l","m","_","t","x","t">>

(***************************************************************************)
(* Module constants.                                                       *)
(***************************************************************************)
\* PRICE_PER_UNIT = 0.02 / 0.05 / 0.03, in units of 0.000001 USD
PRICE_PER_UNIT_1 == 20000

PRICE_PER_UNIT_2 == 50000

PRICE_PER_UNIT_3 == 30000

PRICE_PER_UNIT ==
  CASE vector = 1 -> PRICE_PER_UNIT_1
    [] vector = 2 -> PRICE_PER_UNIT_2
    [] vector = 3 -> PRICE_PER_UNIT_3

STRIPE_CURRENCY == "usd"

ALLOWED_SERVICES_1 == {S_extract_markdown, S_create_usage_charge, S_publish_listing}

ALLOWED_SERVICES_2 == {S_run_skill, S_create_usage_charge, S_publish_listing}

ALLOWED_SERVICES_3 == {S_generate_llm_txt, S_create_usage_charge, S_publish_listing}

ALLOWED_SERVICES ==
  CASE vector = 1 -> ALLOWED_SERVICES_1
    [] vector = 2 -> ALLOWED_SERVICES_2
    [] vector = 3 -> ALLOWED_SERVICES_3

(***************************************************************************)
(* Authorizer.                                                             *)
(***************************************************************************)
\* vector 1: the literal prefix is required
is_authorized_1(auth_token) ==
  IF ~isinstance_str(auth_token) \/ ~startswith(auth_token.s, S_Bearer) THEN FALSE
  ELSE IF API_AUTH_TOKEN = <<>> THEN TRUE
  ELSE auth_token.s = S_Bearer \o API_AUTH_TOKEN

\* the while loop of _normalize_auth_token
RECURSIVE strip_bearer_2(_)
strip_bearer_2(token) ==
  IF startswith(lower(token), S_bearer)
  THEN strip_bearer_2(strip(slice_from(token, 7)))
  ELSE token

normalize_auth_token_2(auth_token) ==
  IF ~isinstance_str(auth_token) THEN <<>>
  ELSE strip_bearer_2(strip(auth_token.s))

\* variant: the test for an empty token is missing
is_authorized_2_accepts_empty(auth_token) ==
  LET token == normalize_auth_token_2(auth_token) IN
  IF API_AUTH_TOKEN = <<>> THEN TRUE
  ELSE token = API_AUTH_TOKEN

is_authorized_2(auth_token) ==
  LET token == normalize_auth_token_2(auth_token) IN
  IF token = <<>> THEN FALSE
  ELSE IF API_AUTH_TOKEN = <<>> THEN TRUE
  ELSE token = API_AUTH_TOKEN

RECURSIVE strip_bearer_3(_)
strip_bearer_3(token) ==
  IF startswith(lower(token), S_bearer)
  THEN strip_bearer_3(strip(slice_from(token, 7)))
  ELSE token

normalize_auth_token_3(auth_token) ==
  IF ~isinstance_str(auth_token) THEN <<>>
  ELSE strip_bearer_3(strip(auth_token.s))

is_authorized_3(auth_token) ==
  LET token == normalize_auth_token_3(auth_token) IN
  IF token = <<>> THEN FALSE
  ELSE IF API_AUTH_TOKEN = <<>> THEN TRUE
  ELSE token = API_AUTH_TOKEN

\* the _is_authorized of the running service
is_authorized(auth_token) ==
  CASE vector = 1 -> is_authorized_1(auth_token)
    [] vector = 2 -> is_authorized_2(auth_token)
    [] vector = 3 -> is_authorized_3(auth_token)

\* the _normalize_auth_token of the running service (vectors 2 and 3)
normalize_auth_token(auth_token) ==
  CASE vector = 2 -> normalize_auth_token_2(auth_token)
    [] vector = 3 -> normalize_auth_token_3(auth_token)

is_https_url(value) == isinstance_str(value) /\ startswith(value.s, S_https)

(***************************************************************************)
(* Floating point.  The product units * PRICE_PER_UNIT and the product     *)
(* amount_usd * 100 are binary doubles: each is the exact decimal value    *)
(* or lies a little below or above it (far less than the 0.000001 the      *)
(* model counts in).  FloatErr is that deviation, in the unit of the       *)
(* operand.                                                                *)
(***************************************************************************)
FloatErr == {-1, 0, 1}

NoError == "None"

ProviderOutcomes == {[ok |-> TRUE, id |-> "pi_1"], [ok |-> FALSE, id |-> ""]}

\* variant: the digits after the fourth decimal are cut off
round4_truncating(x_e6) == x_e6 \div 100

\* round(x, 4): x in units of 0.000001, result in units of 0.0001, ties to even
round4(x_e6) ==
  LET q == x_e6 \div 100
      r == x_e6 % 100
  IN  IF r < 50 THEN q
      ELSE IF r > 50 THEN q + 1
      ELSE IF q % 2 = 0 THEN q ELSE q + 1

\* int(amount_usd * 100): amount_usd in units of 0.0001, truncated to cents
int_cents(amount_e4, err) == (amount_e4 + err) \div 100

(***************************************************************************)
(* Usage biller.  provider is what stripe.PaymentIntent.create does when   *)
(* it is called: [ok |-> TRUE, id |-> ...] or [ok |-> FALSE] (it raises).  *)
(* An outcome is [response, calls, api_key]: the returned dict, the calls  *)
(* made to the provider and the value of stripe.api_key afterwards.        *)
(***************************************************************************)
charge_result(success, charge, error) ==
  [success |-> success, charge |-> charge, error |-> error]

\* variant: the service identifier is looked at before the credential
charge_error_service_first(service_id, units, auth_token) ==
  IF ~isinstance_str(service_id) \/ service_id.s \notin ALLOWED_SERVICES THEN "UNKNOWN_SERVICE"
  ELSE IF ~is_authorized(auth_token) THEN "UNAUTHORIZED"
  ELSE IF ~isinstance_int(units) \/ units.n <= 0 THEN "INVALID_UNITS"
  ELSE NoError

\* variant: the unit count is looked at before the service identifier
charge_error_units_first(service_id, units, auth_token) ==
  IF ~is_authorized(auth_token) THEN "UNAUTHORIZED"
  ELSE IF ~isinstance_int(units) \/ units.n <= 0 THEN "INVALID_UNITS"
  ELSE IF ~isinstance_str(service_id) \/ service_id.s \notin ALLOWED_SERVICES THEN "UNKNOWN_SERVICE"
  ELSE NoError

\* the three validations, in the order of the code: the error code of the
\* first one that fails, NoError when all pass
charge_error(service_id, units, auth_token) ==
  IF ~is_authorized(auth_token) THEN "UNAUTHORIZED"
  ELSE IF ~isinstance_str(service_id) \/ service_id.s \notin ALLOWED_SERVICES THEN "UNKNOWN_SERVICE"
  ELSE IF ~isinstance_int(units) \/ units.n <= 0 THEN "INVALID_UNITS"
  ELSE NoError

\* amount_usd = round(units * PRICE_PER_UNIT, 4), in units of 0.0001 USD
compute_amount_usd(units, err) == round4(units.n * PRICE_PER_UNIT + err)

\* variant: the library alone decides, the secret key is not looked at
provider_configured_no_key == STRIPE_AVAILABLE

\* if STRIPE_AVAILABLE and STRIPE_SECRET_KEY
provider_configured == STRIPE_AVAILABLE /\ STRIPE_SECRET_KEY # <<>>

\* the outcome of stripe.PaymentIntent.create for one call: the dict returned
\* by create_usage_charge, the call made, the value left in stripe.api_key
provider_call(charge, err100, provider) ==
  LET call == [amount |-> int_cents(charge.amount_usd, err100),
               currency |-> STRIPE_CURRENCY,
               metadata |-> [agent_id |-> charge.agent_id,
                             service_id |-> charge.service_id,
                             units |-> charge.units],
               ok |-> provider.ok]
  IN  IF provider.ok
      THEN [response |-> charge_result(TRUE,
               [agent_id |-> charge.agent_id, service_id |-> charge.service_id,
                units |-> charge.units, amount_usd |-> charge.amount_usd,
                status |-> "billed", payment_intent_id |-> provider.id],
               NoError),
            calls |-> <<call>>, api_key |-> STRIPE_SECRET_KEY]
      ELSE [response |-> charge_result(FALSE, PyNone, "STRIPE_ERROR"),
            calls |-> <<call>>, api_key |-> STRIPE_SECRET_KEY]

\* the set of outcomes of one call of create_usage_charge
create_usage_charge(agent_id, service_id, units, auth_token) ==
  IF charge_error(service_id, units, auth_token) # NoError
  THEN {[response |-> charge_result(FALSE, PyNone, charge_error(service_id, units, auth_token)),
         calls |-> <<>>, api_key |-> stripe_api_key]}
  ELSE UNION {
    LET charge == [agent_id |-> agent_id, service_id |-> service_id,
                   units |-> units, amount_usd |-> compute_amount_usd(units, err),
                   status |-> "pending"]
    IN  IF provider_configured
        THEN {provider_call(charge, err100, provider) :
                err100 \in FloatErr, provider \in ProviderOutcomes}
        ELSE {[response |-> charge_result(TRUE, charge, NoError),
               calls |-> <<>>, api_key |-> stripe_api_key]}
    : err \in FloatErr}

(***************************************************************************)
(* Listing publisher (the same code in the three services).                *)
(***************************************************************************)
\* variant: the URLs are looked at before the service identifier
publish_listing_urls_first(service_id, openapi_url, llm_txt_url) ==
  IF ~is_https_url(openapi_url) \/ ~is_https_url(llm_txt_url)
  THEN [success |-> FALSE, listing |-> PyNone, error |-> "INVALID_URL"]
  ELSE IF ~isinstance_str(service_id) \/ strip(service_id.s) = <<>>
  THEN [success |-> FALSE, listing |-> PyNone, error |-> "INVALID_SERVICE"]
  ELSE [success |-> TRUE,
        listing |-> [service_id |-> service_id, openapi_url |-> openapi_url,
                     llm_txt_url |-> llm_txt_url],
        error |-> NoError]

publish_listing(service_id, openapi_url, llm_txt_url) ==
  IF ~isinstance_str(service_id) \/ strip(service_id.s) = <<>>
  THEN [success |-> FALSE, listing |-> PyNone, error |-> "INVALID_SERVICE"]
  ELSE IF ~is_https_url(openapi_url) \/ ~is_https_url(llm_txt_url)
  THEN [success |-> FALSE, listing |-> PyNone, error |-> "INVALID_URL"]
  ELSE [success |-> TRUE,
        listing |-> [service_id |-> service_id, openapi_url |-> openapi_url,
                     llm_txt_url |-> llm_txt_url],
        error |-> NoError]

(***************************************************************************)
(* Capability handlers.                                                    *)
(***************************************************************************)
S_Example_Site == <<"E","x","a","m","p","l","e"," ","S","i","t","e">>

S_Document == <<"D","o","c","u","m","e","n","t">>

S_Extracted == <<"\n","\n","E","x","t","r","a","c","t","e","d"," ","c","o","n","t","e","n","t",".">>

S_Rendered == <<" ","R","e","n","d","e","r","e","d",".">>

S_Source == <<" ","S","o","u","r","c","e",":"," ">>

S_site == <<"s","i","t","e",":"," ">>

S_summary == <<"\n","s","u","m","m","a","r","y",":"," ","a","g","e","n","t","i","c","-","r","e","a","d","y">>

S_paths == <<"\n","p","a","t","h","s",":","\n","-"," ","/","\n","-"," ","/","d","o","c","s">>

PyDict(render_js, include_links) ==
  [t |-> "dict", render_js |-> render_js, include_links |-> include_links]

Max(a, b) == IF a >= b THEN a ELSE b

\* vector 1
extract_markdown(url, options, auth_token) ==
  IF ~is_authorized_1(auth_token)
  THEN [success |-> FALSE, markdown |-> PyNone, metadata |-> PyNone, error |-> "UNAUTHORIZED"]
  ELSE IF ~is_https_url(url)
  THEN [success |-> FALSE, markdown |-> PyNone, metadata |-> PyNone, error |-> "INVALID_URL"]
  ELSE IF contains(url.s, S_site_que_falla)
  THEN [success |-> FALSE, markdown |-> PyNone, metadata |-> PyNone, error |-> "EXTRACTION_FAILED"]
  ELSE
    LET render_js == IF options.t = "dict" THEN truthy(options.render_js) ELSE FALSE
        include_links == IF options.t = "dict" THEN truthy(options.include_links) ELSE FALSE
        title == IF contains(url.s, S_example_com) THEN PyStr(S_Example_Site) ELSE PyNone
        text0 == <<"#", " ">> \o (IF truthy(title) THEN title.s ELSE S_Document) \o S_Extracted
        text1 == IF render_js THEN text0 \o S_Rendered ELSE text0
        base_text == IF include_links THEN text1 \o S_Source \o url.s ELSE text1
        token_count == Max(1, split_count(base_text))
    IN [success |-> TRUE,
        markdown |-> PyStr(base_text),
        metadata |-> [source_url |-> url, title |-> title,
                      token_count |-> token_count, word_count |-> token_count],
        error |-> NoError]

Digits == {"0","1","2","3","4","5","6","7","8","9"}

B64Alphabet ==
  {UpperLetters[i] : i \in 1..26} \cup {LowerLetters[i] : i \in 1..26}
    \cup Digits \cup {"+", "/"}

\* the number of "=" that end str
RECURSIVE trailing_pads(_)
trailing_pads(str) ==
  IF str # <<>> /\ str[Len(str)] = "=" THEN 1 + trailing_pads(SubSeq(str, 1, Len(str) - 1))
  ELSE 0

\* base64.b64decode(str, validate=True) returns (TRUE) or raises (FALSE)
b64decode_ok(str) ==
  LET k == trailing_pads(str)
      d == SubSeq(str, 1, Len(str) - k)
      q == Len(d) % 4
  IN  /\ \A i \in 1..Len(d) : d[i] \in B64Alphabet
      /\ IF d = <<>> THEN k = 0
         ELSE IF q = 0 THEN TRUE
         ELSE IF q = 1 THEN FALSE
         ELSE k = 4 - q

\* vector 2
run_skill(skill_id, payload_b64, auth_token) ==
  IF ~is_authorized_2(auth_token)
  THEN [success |-> FALSE, result |-> PyNone, error |-> "UNAUTHORIZED"]
  ELSE IF skill_id # PyStr(S_pdf_financials)
  THEN [success |-> FALSE, result |-> PyNone, error |-> "UNKNOWN_SKILL"]
  ELSE IF ~isinstance_str(payload_b64) \/ payload_b64.s = <<>>
  THEN [success |-> FALSE, result |-> PyNone, error |-> "INVALID_PAYLOAD"]
  ELSE IF contains(payload_b64.s, S_BAD)
  THEN [success |-> FALSE, result |-> PyNone, error |-> "SKILL_FAILED"]
  ELSE IF ~b64decode_ok(payload_b64.s)
  THEN [success |-> FALSE, result |-> PyNone, error |-> "INVALID_PAYLOAD"]
  ELSE [success |-> TRUE, result |-> [tables |-> 1, rows |-> 10], error |-> NoError]

\* vector 3
generate_llm_txt(domain, auth_token) ==
  IF ~is_authorized_3(auth_token)
  THEN [success |-> FALSE, llm_txt |-> PyNone, llm_full_txt |-> PyNone, error |-> "UNAUTHORIZED"]
  ELSE IF \/ ~isinstance_str(domain)
          \/ contains(domain.s, S_http)
          \/ contains(domain.s, <<"/">>)
          \/ contains(domain.s, <<" ">>)
  THEN [success |-> FALSE, llm_txt |-> PyNone, llm_full_txt |-> PyNone, error |-> "INVALID_DOMAIN"]
  ELSE IF contains(domain.s, S_site_que_falla)
  THEN [success |-> FALSE, llm_txt |-> PyNone, llm_full_txt |-> PyNone, error |-> "CRAWL_FAILED"]
  ELSE [success |-> TRUE,
        llm_txt |-> PyStr(S_site \o domain.s \o S_summary),
        llm_full_txt |-> PyStr(S_site \o domain.s \o S_paths),
        error |-> NoError]

(***************************************************************************)
(* HTTP layer: the Authorization header as the core functions receive it.  *)
(* credentials is PyNone or [t |-> "creds", scheme, credentials].          *)
(***************************************************************************)
auth_header_from_credentials(credentials) ==
  IF credentials = PyNone THEN PyStr(<<>>)
  ELSE PyStr(credentials.scheme \o <<" ">> \o credentials.credentials)

(***************************************************************************)
(* Inputs.                                                                 *)
(***************************************************************************)
S_tok == <<"t","0","k">>

Pieces == {<<" ">>, <<"\t">>, S_Bearer, S_bearer, S_tok, <<"x">>}

\* the strings made of at most k pieces
RECURSIVE Concat(_)
Concat(k) ==
  IF k = 0 THEN {<<>>}
  ELSE LET shorter == Concat(k - 1)
       IN  shorter \cup {p \o q : p \in Pieces, q \in shorter}

BearerBearerBearerX == S_Bearer \o S_Bearer \o S_Bearer \o <<"x">>

AuthTokens ==
  {PyStr(str) : str \in Concat(MaxPieces) \cup {BearerBearerBearerX}}
    \cup {PyNone, PyInt(7)}

HandlerTokens ==
  {PyNone, PyStr(S_Bearer), PyStr(S_tok), PyStr(S_Bearer \o S_tok),
   PyStr(S_bearer \o S_tok), PyStr(S_Bearer \o <<"x">>)}

SkillTokens == {PyStr(S_tok), PyNone}

Secrets == {<<>>, S_tok}

StripeKeys == {<<>>, <<"s","k">>}

AgentIds == {PyStr(<<"a","1">>), PyNone}

S_nope == <<"n","o","p","e">>

ServiceIds ==
  {PyStr(S_extract_markdown), PyStr(S_run_skill), PyStr(S_generate_llm_txt),
   PyStr(S_create_usage_charge), PyStr(S_publish_listing), PyStr(S_nope),
   PyNone, PyInt(1)}

ListingServiceIds ==
  {PyStr(S_run_skill), PyStr(S_nope), PyStr(<<" ">> \o S_nope), PyStr(<<>>),
   PyStr(<<" ", "\t">>), PyNone, PyInt(1)}

ListingUrls ==
  {PyStr(S_https \o S_example_com), PyStr(S_http \o <<":","/","/">> \o S_example_com),
   PyStr(S_https), PyStr(<<>>), PyNone}

ApiServiceIds == {PyStr(S_create_usage_charge), PyStr(S_nope), PyNone}

ApiUnitValues == {PyInt(1), PyInt(0), PyBool(TRUE), PyNone}

UnitValues ==
  {PyInt(k) : k \in (-MaxUnits..MaxUnits) \cup {10, 333}}
    \cup {PyBool(TRUE), PyBool(FALSE), PyFloat(15), PyFloat(20),
          PyStr(<<"3">>), PyNone}

S_fail_host == S_site_que_falla \o <<".","t","e","s","t">>

Urls ==
  {PyStr(S_https \o S_example_com), PyStr(S_http \o <<":","/","/">> \o S_example_com),
   PyStr(S_https \o S_fail_host), PyStr(S_http \o <<":","/","/">> \o S_fail_host),
   PyStr(S_https \o <<"a",".","i","o">>), PyStr(S_fail_host),
   PyStr(<<>>), PyNone, PyInt(1)}

Options ==
  {PyNone, PyDict(PyNone, PyNone), PyDict(PyBool(TRUE), PyNone),
   PyDict(PyNone, PyInt(1)), PyDict(PyBool(TRUE), PyStr(<<"y">>))}

PayloadAlphabet == {"A", "B", "D", "=", "!"}

RECURSIVE Words(_)
Words(k) ==
  IF k = 0 THEN {<<>>}
  ELSE LET shorter == Words(k - 1)
       IN  shorter \cup {<<c>> \o w : c \in PayloadAlphabet, w \in shorter}

Payloads ==
  {PyStr(w) : w \in Words(MaxPayloadLen) \cup {S_BAD \o <<"A">>, <<"A","A","A","A">>}}
    \cup {PyNone, PyInt(1)}

ApiPayloads ==
  {PyStr(<<"A","A","A","A">>), PyStr(S_BAD), PyStr(S_BAD \o <<"A">>), PyStr(<<"!">>), PyNone}

SkillIds == {PyStr(S_pdf_financials), PyStr(S_nope)}

Domains ==
  {PyStr(S_example_com), PyStr(S_fail_host), PyStr(S_https \o S_fail_host),
   PyStr(S_fail_host \o <<"/","x">>), PyStr(S_fail_host \o <<" ">>),
   PyStr(S_http), PyStr(<<"a"," ","b">>), PyStr(<<>>), PyNone, PyInt(1)}

HttpCredentials ==
  {PyNone} \cup
  {[t |-> "creds", scheme |-> sc, credentials |-> cr] :
     sc \in {<<"B","e","a","r","e","r">>, <<"b","e","a","r","e","r">>},
     cr \in {S_tok, <<"x">>, <<>>}}

(***************************************************************************)
(* The service: one process of one vector, configured once at start, that  *)
(* serves one call at a time.                                              *)
(***************************************************************************)
Idle == [op |-> "idle"]

Init ==
  /\ vector \in 1..3
  /\ API_AUTH_TOKEN \in Secrets
  /\ STRIPE_AVAILABLE \in BOOLEAN
  /\ STRIPE_SECRET_KEY \in StripeKeys
  /\ stripe_api_key = <<>>
  /\ request = Idle
  /\ response = PyNone
  /\ stripe_calls = <<>>

\* a call that does not reach the payment provider
Serve(req, res) ==
  /\ request' = req
  /\ response' = res
  /\ stripe_calls' = <<>>
  /\ UNCHANGED <<config, stripe_api_key>>

IsAuthorized ==
  /\ request = Idle
  /\ \E auth_token \in AuthTokens :
    Serve([op |-> "_is_authorized", auth_token |-> auth_token],
          [authorized |-> is_authorized(auth_token)])

NormalizeAuthToken ==
  /\ vector \in {2, 3}
  /\ request = Idle
  /\ \E auth_token \in AuthTokens :
       Serve([op |-> "_normalize_auth_token", auth_token |-> auth_token],
             [token |-> normalize_auth_token(auth_token)])

ExtractMarkdown ==
  /\ vector = 1
  /\ request = Idle
  /\ \E url \in Urls, options \in Options, auth_token \in HandlerTokens :
       Serve([op |-> "extract_markdown", url |-> url, options |-> options,
              auth_token |-> auth_token],
             extract_markdown(url, options, auth_token))

RunSkill ==
  /\ vector = 2
  /\ request = Idle
  /\ \E skill_id \in SkillIds, payload_b64 \in Payloads,
        auth_token \in SkillTokens :
       Serve([op |-> "run_skill", skill_id |-> skill_id,
              payload_b64 |-> payload_b64, auth_token |-> auth_token],
             run_skill(skill_id, payload_b64, auth_token))

GenerateLlmTxt ==
  /\ vector = 3
  /\ request = Idle
  /\ \E domain \in Domains, auth_token \in HandlerTokens :
       Serve([op |-> "generate_llm_txt", domain |-> domain,
              auth_token |-> auth_token],
             generate_llm_txt(domain, auth_token))

\* a call of create_usage_charge
Bill(req, agent_id, service_id, units, auth_token) ==
  /\ \E r \in create_usage_charge(agent_id, service_id, units, auth_token) :
       /\ request' = req
       /\ response' = r.response
       /\ stripe_calls' = r.calls
       /\ stripe_api_key' = r.api_key
  /\ UNCHANGED config

CreateUsageCharge ==
  /\ request = Idle
  /\ \E agent_id \in AgentIds, service_id \in ServiceIds, units \in UnitValues,
     auth_token \in HandlerTokens :
    Bill([op |-> "create_usage_charge", agent_id |-> agent_id,
          service_id |-> service_id, units |-> units, auth_token |-> auth_token],
         agent_id, service_id, units, auth_token)

PublishListing ==
  /\ request = Idle
  /\ \E service_id \in ListingServiceIds, openapi_url \in ListingUrls,
        llm_txt_url \in ListingUrls :
    Serve([op |-> "publish_listing", service_id |-> service_id,
           openapi_url |-> openapi_url, llm_txt_url |-> llm_txt_url],
          publish_listing(service_id, openapi_url, llm_txt_url))

\* POST /v1/extract
ApiExtract ==
  /\ vector = 1
  /\ request = Idle
  /\ \E url \in Urls, options \in {PyNone, PyDict(PyBool(TRUE), PyInt(1))},
        credentials \in HttpCredentials :
       Serve([op |-> "api_extract", url |-> url, options |-> options,
              auth_token |-> auth_header_from_credentials(credentials)],
             extract_markdown(url, options, auth_header_from_credentials(credentials)))

\* POST /v1/skills/run
ApiRunSkill ==
  /\ vector = 2
  /\ request = Idle
  /\ \E skill_id \in SkillIds, payload_b64 \in ApiPayloads, credentials \in HttpCredentials :
       Serve([op |-> "api_run_skill", skill_id |-> skill_id, payload_b64 |-> payload_b64,
              auth_token |-> auth_header_from_credentials(credentials)],
             run_skill(skill_id, payload_b64, auth_header_from_credentials(credentials)))

\* POST /v1/llm-txt
ApiLlmTxt ==
  /\ vector = 3
  /\ request = Idle
  /\ \E domain \in Domains, credentials \in HttpCredentials :
       Serve([op |-> "api_llm_txt", domain |-> domain,
              auth_token |-> auth_header_from_credentials(credentials)],
             generate_llm_txt(domain, auth_header_from_credentials(credentials)))

\* POST /v1/billing/usage
ApiUsage ==
  /\ request = Idle
  /\ \E agent_id \in AgentIds, service_id \in ApiServiceIds, units \in ApiUnitValues,
        credentials \in HttpCredentials :
    Bill([op |-> "api_usage", agent_id |-> agent_id, service_id |-> service_id,
          units |-> units, auth_token |-> auth_header_from_credentials(credentials)],
         agent_id, service_id, units, auth_header_from_credentials(credentials))

\* POST /v1/listing
ApiListing ==
  /\ request = Idle
  /\ \E service_id \in ListingServiceIds, openapi_url \in ListingUrls,
        llm_txt_url \in ListingUrls :
    Serve([op |-> "api_listing", service_id |-> service_id,
           openapi_url |-> openapi_url, llm_txt_url |-> llm_txt_url],
          publish_listing(service_id, openapi_url, llm_txt_url))

\* the call returns; the service is ready for the next one
Return ==
  /\ request # Idle
  /\ request' = Idle
  /\ response' = PyNone
  /\ stripe_calls' = <<>>
  /\ UNCHANGED <<config, stripe_api_key>>

Next ==
  \/ IsAuthorized
  \/ NormalizeAuthToken
  \/ ExtractMarkdown
  \/ RunSkill
  \/ GenerateLlmTxt
  \/ CreateUsageCharge
  \/ PublishListing
  \/ ApiExtract
  \/ ApiRunSkill
  \/ ApiLlmTxt
  \/ ApiUsage
  \/ ApiListing
  \/ Return

Spec == Init /\ [][Next]_vars

(***************************************************************************)
(* Properties of the usage biller.                                         *)
(***************************************************************************)
Billing == request.op \in {"create_usage_charge", "api_usage"}

ServiceAllowed ==
  /\ request.service_id.t = "str"
  /\ request.service_id.s \in
       (CASE vector = 1 -> {S_extract_markdown, S_create_usage_charge, S_publish_listing}
          [] vector = 2 -> {S_run_skill, S_create_usage_charge, S_publish_listing}
          [] vector = 3 -> {S_generate_llm_txt, S_create_usage_charge, S_publish_listing})

\* the unit count is an integer greater than zero (a bool is not a unit count)
UnitsPositiveInteger == request.units.t = "int" /\ request.units.n > 0

\* the unit count passes the test of the code: isinstance(units, int) and units > 0
UnitsAccepted == request.units.t \in {"int", "bool"} /\ request.units.n > 0

ProviderConfigured == STRIPE_AVAILABLE /\ STRIPE_SECRET_KEY # <<>>

Rejected(error) == response = [success |-> FALSE, charge |-> PyNone, error |-> error]

\* C1: a charge request whose credential the authorizer rejects returns
\* {success: false, charge: null, error: UNAUTHORIZED} whatever the agent id,
\* service id and unit count, and makes no call to the payment provider,
\* configured or not.
C1_UnauthorizedRejectedWithoutProviderCall ==
  (Billing /\ ~is_authorized(request.auth_token))
    => (Rejected("UNAUTHORIZED") /\ stripe_calls = <<>>)

\* C1 witness: an unauthorized request with an allow-listed service and a
\* valid unit count, served while a provider is configured.
C1_Witness ==
  /\ Billing
  /\ ~is_authorized(request.auth_token)
  /\ ServiceAllowed
  /\ UnitsPositiveInteger
  /\ ProviderConfigured
  /\ response.error = "UNAUTHORIZED"

\* C2 as stated: a service identifier outside the allow-list (or not a string)
\* yields UNKNOWN_SERVICE whether or not the credential is authorized.
C2_UnknownServiceRegardlessOfAuthorization ==
  (Billing /\ ~ServiceAllowed) => Rejected("UNKNOWN_SERVICE")

\* C2 amended: a service identifier outside the allow-list (or not a string)
\* yields UNKNOWN_SERVICE, whatever the unit count, when the credential is
\* authorized; when it is not, the result is UNAUTHORIZED.
C2_UnknownServiceWhenAuthorized ==
  (Billing /\ ~ServiceAllowed)
    => IF is_authorized(request.auth_token)
       THEN Rejected("UNKNOWN_SERVICE") /\ stripe_calls = <<>>
       ELSE Rejected("UNAUTHORIZED")

\* C2 witness: an authorized request for an unknown service with an invalid
\* unit count is answered UNKNOWN_SERVICE.
C2_Witness ==
  /\ Billing
  /\ is_authorized(request.auth_token)
  /\ ~ServiceAllowed
  /\ ~UnitsAccepted
  /\ response.error = "UNKNOWN_SERVICE"

\* C3: with an authorized credential and an allow-listed service, every unit
\* count that is not a positive integer (zero, negative, non-integer number,
\* string, boolean, null) is answered {false, null, INVALID_UNITS}, and a
\* charge is built only for an integer greater than zero.
C3_NonPositiveIntegerUnitsRejected ==
  (Billing /\ is_authorized(request.auth_token) /\ ServiceAllowed)
    => /\ ~UnitsPositiveInteger => Rejected("INVALID_UNITS")
       /\ response.charge # PyNone => UnitsPositiveInteger

ExpectedPriceE4 ==
  CASE vector = 1 -> 200
    [] vector = 2 -> 500
    [] vector = 3 -> 300

\* C5: the charge returned for an accepted unit count u has units = u and
\* amount = u times the unit price of the service (0.02, 0.05, 0.03) rounded
\* to 4 decimals; u = 1, 10, 333 give 0.02, 0.2, 6.66 / 0.05, 0.5, 16.65 /
\* 0.03, 0.3, 9.99.
C5_AmountIsUnitsTimesPrice ==
  (Billing /\ response.charge # PyNone) =>
    /\ response.charge.units = request.units
    /\ response.charge.amount_usd = request.units.n * ExpectedPriceE4
    /\ request.units.n = 1 =>
         response.charge.amount_usd = (CASE vector = 1 -> 200 [] vector = 2 -> 500 [] vector = 3 -> 300)
    /\ request.units.n = 10 =>
         response.charge.amount_usd = (CASE vector = 1 -> 2000 [] vector = 2 -> 5000 [] vector = 3 -> 3000)
    /\ request.units.n = 333 =>
         response.charge.amount_usd = (CASE vector = 1 -> 66600 [] vector = 2 -> 166500 [] vector = 3 -> 99900)

\* C5 witness: a charge for 333 units of vector 2 amounts to 16.65 USD.
C5_Witness ==
  /\ Billing
  /\ vector = 2
  /\ response.charge # PyNone
  /\ request.units = PyInt(333)
  /\ response.charge.amount_usd = 166500

(***************************************************************************)
(* Properties of the authorizer.                                           *)
(***************************************************************************)
\* C6: in vectors 2 and 3 _is_authorized(c) is true exactly when the
\* normalized credential n is non-empty and either no secret is configured or
\* n equals the secret; with a secret, the bare secret and the secret behind
\* "Bearer " are both accepted.
C6_AuthorizedIffNormalizedMatchesSecret ==
  (vector \in {2, 3} /\ request.op = "_is_authorized") =>
    LET n == normalize_auth_token(request.auth_token) IN
    /\ response.authorized <=> (n # <<>> /\ (API_AUTH_TOKEN = <<>> \/ n = API_AUTH_TOKEN))
    /\ request.auth_token.t # "str" => ~response.authorized
    /\ (/\ API_AUTH_TOKEN # <<>>
        /\ request.auth_token \in {PyStr(API_AUTH_TOKEN), PyStr(S_Bearer \o API_AUTH_TOKEN)})
         => response.authorized

\* C6 witness: with a secret configured, the secret behind "Bearer " is
\* authorized by vector 2 or 3.
C6_Witness ==
  /\ vector \in {2, 3}
  /\ request.op = "_is_authorized"
  /\ API_AUTH_TOKEN # <<>>
  /\ request.auth_token = PyStr(S_Bearer \o API_AUTH_TOKEN)
  /\ response.authorized

\* C7: for every string t, normalize(normalize(t)) = normalize(t), the result
\* never starts with "bearer " in any letter case, has no surrounding
\* whitespace, and normalize("Bearer " + t) = normalize(t); "Bearer Bearer
\* Bearer x" normalizes to "x".
C7_NormalizationIdempotentAndCollapsing ==
  (request.op = "_normalize_auth_token" /\ request.auth_token.t = "str") =>
    LET n == response.token IN
    /\ normalize_auth_token(PyStr(n)) = n
    /\ ~startswith(lower(n), S_bearer)
    /\ (n # <<>> => (n[1] \notin Whitespace /\ n[Len(n)] \notin Whitespace))
    /\ normalize_auth_token(PyStr(S_Bearer \o request.auth_token.s)) = n
    /\ (request.auth_token.s = BearerBearerBearerX => n = <<"x">>)

(***************************************************************************)
(* Properties of the capability handlers and of the listing publisher.     *)
(***************************************************************************)
\* C8: every capability handler answers in the order UNAUTHORIZED, invalid
\* input, simulated failure, success: for an authorized call a syntactically
\* invalid input gets the invalid-input code even when it holds the failure
\* marker, and the failure code is returned only for syntactically valid input.
C8_InvalidInputBeforeSimulatedFailure ==
  /\ request.op \in {"extract_markdown", "api_extract"} =>
       LET valid == request.url.t = "str" /\ startswith(request.url.s, S_https) IN
       IF ~is_authorized(request.auth_token) THEN response.error = "UNAUTHORIZED"
       ELSE IF ~valid THEN response.error = "INVALID_URL"
       ELSE IF contains(request.url.s, S_site_que_falla)
            THEN response.error = "EXTRACTION_FAILED"
            ELSE response.success
  /\ (/\ request.op \in {"run_skill", "api_run_skill"}
      /\ request.skill_id = PyStr(S_pdf_financials)) =>
       LET valid == /\ request.payload_b64.t = "str"
                    /\ request.payload_b64.s # <<>>
                    /\ b64decode_ok(request.payload_b64.s) IN
       IF ~is_authorized(request.auth_token) THEN response.error = "UNAUTHORIZED"
       ELSE IF ~valid THEN response.error = "INVALID_PAYLOAD"
       ELSE IF contains(request.payload_b64.s, S_BAD)
            THEN response.error = "SKILL_FAILED"
            ELSE response.success
  /\ request.op \in {"generate_llm_txt", "api_llm_txt"} =>
       LET valid == /\ request.domain.t = "str"
                    /\ ~contains(request.domain.s, S_http)
                    /\ ~contains(request.domain.s, <<"/">>)
                    /\ ~contains(request.domain.s, <<" ">>) IN
       IF ~is_authorized(request.auth_token) THEN response.error = "UNAUTHORIZED"
       ELSE IF ~valid THEN response.error = "INVALID_DOMAIN"
       ELSE IF contains(request.domain.s, S_site_que_falla)
            THEN response.error = "CRAWL_FAILED"
            ELSE response.success

\* C9: publish_listing answers INVALID_SERVICE when the service identifier is
\* not a string or is blank, whatever the URLs; otherwise INVALID_URL when
\* either URL is not a string starting with "https://"; otherwise it succeeds
\* and echoes the three inputs.  No credential or configuration takes part.
C9_ListingValidationOrder ==
  request.op \in {"publish_listing", "api_listing"} =>
    LET sid == request.service_id
        blank == sid.t # "str" \/ \A i \in 1..Len(sid.s) : sid.s[i] \in Whitespace
        https(x) == x.t = "str" /\ Len(x.s) >= 8 /\ SubSeq(x.s, 1, 8) = S_https
    IN  IF blank
        THEN response = [success |-> FALSE, listing |-> PyNone, error |-> "INVALID_SERVICE"]
        ELSE IF ~https(request.openapi_url) \/ ~https(request.llm_txt_url)
        THEN response = [success |-> FALSE, listing |-> PyNone, error |-> "INVALID_URL"]
        ELSE response = [success |-> TRUE,
                         listing |-> [service_id |-> sid,
                                      openapi_url |-> request.openapi_url,
                                      llm_txt_url |-> request.llm_txt_url],
                         error |-> NoError]

\* C9 witness: an empty service identifier with two valid URLs is answered
\* INVALID_SERVICE.
C9_Witness ==
  /\ request.op = "publish_listing"
  /\ request.service_id = PyStr(<<>>)
  /\ request.openapi_url = PyStr(S_https \o S_example_com)
  /\ request.llm_txt_url = PyStr(S_https \o S_example_com)
  /\ response.error = "INVALID_SERVICE"

\* C10: the authorizer of vector 1 accepts a credential only when it is a
\* string made of the literal prefix "Bearer " followed by a non-empty token,
\* with or without a configured secret; with a secret it accepts exactly
\* "Bearer " followed by the secret.
C10_Vector1RequiresTokenBehindBearer ==
  (vector = 1 /\ request.op = "_is_authorized") =>
    LET c == request.auth_token IN
    /\ response.authorized =>
         (c.t = "str" /\ startswith(c.s, S_Bearer) /\ Len(c.s) > Len(S_Bearer))
    /\ API_AUTH_TOKEN # <<>> =>
         (response.authorized <=> (c.t = "str" /\ c.s = S_Bearer \o API_AUTH_TOKEN))

====
